---- MODULE Spec2Model ----
(***************************************************************************)
(* Session / token lifecycle of the WebLarek storefront.                   *)
(*                                                                         *)
(* Client side: the request gateway of frontend/src/utils/weblarek-api.ts  *)
(* (Api.request, Api.requestWithRefresh, processQueue, forceLogout) run by *)
(* a JavaScript event loop: a network response is a task, promise          *)
(* reactions are microtasks that are drained in FIFO order before the next *)
(* task starts.                                                            *)
(*                                                                         *)
(* Server side: the controllers of backend/src/controllers/auth.ts (login, *)
(* register, refreshAccessToken, logout) and deleteCustomer of             *)
(* controllers/customers.ts run as concurrent request handlers over the    *)
(* per-user array of refresh-token hashes held in the database. Every      *)
(* await of a handler is a point where other handlers run: the database    *)
(* applies a call in one step and the handler resumes in a later one.      *)
(***************************************************************************)
EXTENDS Integers, Sequences, FiniteSets, Bags, TLC

\* ------------------------------------------------------------------ bounds
\* Number of concurrent callers of requestWithRefresh in the client process.
NCallers == 3

\* Number of requests the server handles at the same time.
NSlots == 3

\* Number of requests the server receives in one run.
MaxReq == 4

\* Number of callers of requestWithRefresh in the page that is joined with the
\* server.
NSessCallers == 2

Callers == 1..NCallers

\* store.user.accessToken === null (initialState of the user slice).
NoToken == 0

\* Outcomes of the refresh call that make Api.refreshToken reject: a 401 from
\* GET /auth/token, or a transport failure of fetch itself.
RefreshErrors == {"refresh401", "refreshNet"}

VARIABLES
    \* --- client (weblarek-api.ts, user-slice) ---
    isRefreshing,   \* module-level flag
    failedQueue,    \* module-level queue of {resolve, reject}, as caller ids
    accessToken,    \* store.user.accessToken (NoToken = null)
    userData,       \* store.user.data is non-null
    accessCookie,   \* the script-visible 'accessToken' cookie
    location,       \* window.location
    microtasks,     \* pending promise reactions, FIFO
    cpc,            \* per caller: position inside requestWithRefresh
    outcome,        \* per caller: how its promise settled
    reqTok,         \* per caller: Authorization token of its request in flight
    firstTok,       \* per caller: token its first request carried
    sends,          \* per caller: number of requests sent through Api.request
    role,           \* per caller: "refresher" or "queued" once it observed a 401
    behind,         \* per queued caller: the caller whose refresh it waits on
    epoch,          \* per caller: refresh cycles completed when its 401 arrived
    rotateCalls,    \* number of GET /auth/token calls sent so far
    cyclesDone,     \* number of refresh cycles completed (flag cleared)
    refreshResult,  \* per refresher: how its GET /auth/token call ended
    simultaneous,   \* every caller had sent its request before any response arrived
    issuedAccess,   \* access tokens the server has handed to this client
    authPc,         \* the thunk of the user slice in progress: idle, sent, or its result
    authEp,         \* the endpoint of the call in flight
    authCaller,     \* the requestWithRefresh call that carries it (0: sent by Api.request)
    \* --- server (controllers/auth.ts over the users collection) ---
    db,             \* per user: the stored tokens array, as a set of hashes
    account,        \* per user: no document yet, a document, or a deleted one
    inflight,       \* bag of the requests whose handler is suspended at an await
    last,           \* the request answered last, with its response
    nextId,         \* serial of the next refresh token to be signed
    started,        \* number of requests received so far
    completed,      \* number of requests answered so far
    issued,         \* raw refresh tokens handed out in a Set-Cookie
    rotated,        \* raw refresh tokens a rotate has succeeded with
    gone,           \* hashes that have been removed from a stored array
    replayed,       \* raw tokens a rotate accepted though received after they were used
    \* --- server (middlewares/auth.ts in front of a protected route) ---
    guardLog,       \* the requests to a protected route so far, with what became of them
    serverUp,       \* the server process is running
    \* --- the page and the server joined by the network ---
    wire,           \* the GET /auth/token exchange in progress
    authWire,       \* the login, registration or logout exchange in progress
    jar,            \* the browser's refreshToken cookie
    presented,      \* the cookies the page's refresh calls delivered to the server
    answerLost      \* an answer of GET /auth/token did not reach the page

clientVars == <<isRefreshing, failedQueue, accessToken, userData, accessCookie,
                location, microtasks, cpc, outcome, reqTok, firstTok, sends,
                role, behind, epoch, rotateCalls, cyclesDone, refreshResult,
                simultaneous, issuedAccess>>

serverVars == <<db, account, inflight, last, nextId, started, completed, issued, rotated,
                gone, replayed>>

authVars == <<authPc, authEp, authCaller>>

guardVars == <<guardLog, serverUp>>

sessionVars == <<wire, authWire, jar, presented, answerLost>>

vars == <<clientVars, authVars, serverVars, guardVars, sessionVars>>

\* ------------------------------------------------------------------ client
\* The access token of the session the page starts with: the one loginUser.fulfilled
\* (or registerUser.fulfilled) put into the store.
FirstToken == 1

\* let isRefreshing = false; let failedQueue = []; the store holds either the
\* initialState of the slice (a fresh page) or the state after loginUser.fulfilled.
InitClient ==
    /\ isRefreshing = FALSE
    /\ failedQueue = <<>>
    /\ \E loggedIn \in BOOLEAN :
          /\ accessToken = (IF loggedIn THEN FirstToken ELSE NoToken)
          /\ userData = loggedIn
          /\ issuedAccess = (IF loggedIn THEN FirstToken ELSE 0)
    /\ accessCookie = "unset"
    /\ location = "app"
    /\ microtasks = <<>>
    /\ cpc = [c \in Callers |-> "idle"]
    /\ outcome = [c \in Callers |-> "none"]
    /\ reqTok = [c \in Callers |-> NoToken]
    /\ firstTok = [c \in Callers |-> NoToken]
    /\ sends = [c \in Callers |-> 0]
    /\ role = [c \in Callers |-> "none"]
    /\ behind = [c \in Callers |-> 0]
    /\ epoch = [c \in Callers |-> 0]
    /\ rotateCalls = 0
    /\ cyclesDone = 0
    /\ refreshResult = [c \in Callers |-> ""]
    /\ simultaneous = TRUE

\* A task (a network response, a call from the UI) starts only when the
\* microtask queue has been drained.
TaskMayRun == microtasks = <<>>

Job(kind, c, tok, err) == [k |-> kind, c |-> c, tok |-> tok, err |-> err]

\* Api.request: reads the token from the store and sends the request with it.
SendRequest(c, tok) ==
    /\ reqTok' = [reqTok EXCEPT ![c] = tok]
    /\ sends' = [sends EXCEPT ![c] = @ + 1]

\* requestWithRefresh, line 115: the first request is sent. Callers are numbered
\* in the order of their calls.
Call(c) ==
    /\ TaskMayRun
    /\ cpc[c] = "idle"
    /\ \A b \in Callers : b < c => cpc[b] # "idle"
    /\ cpc' = [cpc EXCEPT ![c] = "sent"]
    /\ SendRequest(c, accessToken)
    /\ firstTok' = [firstTok EXCEPT ![c] = accessToken]
    /\ UNCHANGED <<isRefreshing, failedQueue, accessToken, userData, accessCookie,
                   location, microtasks, outcome, role, behind, epoch,
                   rotateCalls, cyclesDone, issuedAccess,
                   refreshResult, simultaneous>>

\* A response to a first request arrives: were all callers' requests out by then?
NoteArrival == simultaneous' = (simultaneous /\ \A b \in Callers : cpc[b] # "idle")

\* The caller's promise settles with `res`; it has no request in flight.
Settle(c, res) ==
    /\ cpc' = [cpc EXCEPT ![c] = "done"]
    /\ outcome' = [outcome EXCEPT ![c] = res]
    /\ reqTok' = [reqTok EXCEPT ![c] = NoToken]

\* The first request succeeds: its result is returned (line 115).
RespOk(c) ==
    /\ TaskMayRun
    /\ cpc[c] = "sent"
    /\ NoteArrival
    /\ Settle(c, "ok")
    /\ UNCHANGED <<isRefreshing, failedQueue, accessToken, userData, accessCookie,
                   location, microtasks, firstTok, sends, role, behind,
                   epoch, rotateCalls, cyclesDone, issuedAccess,
                   refreshResult>>

\* The condition of line 124.
RefreshInProgressAlways == TRUE
RefreshInProgressNever == FALSE
RefreshInProgress == isRefreshing

\* The caller whose refresh is in flight or being settled.
CurrentRefresher ==
    IF \E r \in Callers : role[r] = "refresher" /\ cpc[r] \in {"refreshing", "settling"}
    THEN CHOOSE r \in Callers : role[r] = "refresher" /\ cpc[r] \in {"refreshing", "settling"}
    ELSE 0

\* The condition of line 119, on the status of the rejected request ("other"
\* stands for any failure without statusCode 401: 403, 404, 500, no response).
IsUnauthorizedAny(st) == TRUE
IsUnauthorized(st) == st = "401"

\* The first request fails (lines 116-134). A failure other than 401 is rethrown
\* as it is; on a 401 the caller queues behind the refresh in progress, or sets
\* the flag and calls GET /auth/token.
RespFailed(c, st) ==
    /\ TaskMayRun
    /\ cpc[c] = "sent"
    /\ NoteArrival
    /\ reqTok' = [reqTok EXCEPT ![c] = NoToken]
    /\ IF ~IsUnauthorized(st)
       THEN /\ cpc' = [cpc EXCEPT ![c] = "done"]
            /\ outcome' = [outcome EXCEPT ![c] = st]
            /\ UNCHANGED <<isRefreshing, failedQueue, role, behind, epoch, rotateCalls>>
       ELSE /\ epoch' = [epoch EXCEPT ![c] = cyclesDone]
            /\ outcome' = outcome
            /\ IF RefreshInProgress
               THEN /\ failedQueue' = Append(failedQueue, c)
                    /\ cpc' = [cpc EXCEPT ![c] = "queued"]
                    /\ role' = [role EXCEPT ![c] = "queued"]
                    /\ behind' = [behind EXCEPT ![c] = CurrentRefresher]
                    /\ UNCHANGED <<isRefreshing, rotateCalls>>
               ELSE /\ isRefreshing' = TRUE
                    /\ cpc' = [cpc EXCEPT ![c] = "refreshing"]
                    /\ role' = [role EXCEPT ![c] = "refresher"]
                    /\ rotateCalls' = rotateCalls + 1
                    /\ UNCHANGED <<failedQueue, behind>>
    /\ UNCHANGED <<accessToken, userData, accessCookie, location, microtasks,
                   firstTok, sends, cyclesDone, issuedAccess, refreshResult>>

\* The first request fails with a status other than 401 (or with no status).
RespOther(c) == RespFailed(c, "other")

\* The first request fails with 401.
Resp401(c) == RespFailed(c, "401")

\* Api.refreshToken settles: the response of GET /auth/token arrived (or fetch
\* failed) and the matching reaction of lines 135/140 is queued.
RefreshRejectsOn401Only(r) == r = "refresh401"
RefreshRejects(r) == r \in RefreshErrors

RefreshSettles(c, r) ==
    /\ TaskMayRun
    /\ cpc[c] = "refreshing"
    /\ cpc' = [cpc EXCEPT ![c] = "settling"]
    /\ refreshResult' = [refreshResult EXCEPT ![c] = r]
    /\ IF ~RefreshRejects(r)
       THEN /\ issuedAccess' = issuedAccess + 1
            /\ microtasks' = <<Job("then", c, issuedAccess + 1, "")>>
       ELSE /\ issuedAccess' = issuedAccess
            /\ microtasks' = <<Job("catch", c, NoToken, r)>>
    /\ UNCHANGED <<isRefreshing, failedQueue, accessToken, userData, accessCookie,
                   location, outcome, reqTok, firstTok, sends, role, behind,
                   epoch, rotateCalls, cyclesDone,
                   simultaneous>>

\* processQueue (lines 40-49): every entry is resolved (error = "") or rejected;
\* the reaction of each entry's promise is queued in the order of the queue.
ProcessQueueTwice(error) ==
    [i \in 1..(2 * Len(failedQueue)) |->
        Job(IF error # "" THEN "queuedReject" ELSE "queuedThen",
            failedQueue[((i - 1) % Len(failedQueue)) + 1], NoToken, error)]
ProcessQueueDropLast(error) ==
    [i \in 1..(Len(failedQueue) - 1) |->
        Job(IF error # "" THEN "queuedReject" ELSE "queuedThen",
            failedQueue[i], NoToken, error)]
ProcessQueueAlwaysResolves(error) ==
    [i \in 1..Len(failedQueue) |-> Job("queuedThen", failedQueue[i], NoToken, "")]
ProcessQueue(error) ==
    [i \in 1..Len(failedQueue) |->
        Job(IF error # "" THEN "queuedReject" ELSE "queuedThen",
            failedQueue[i], NoToken, error)]

\* failedQueue = [] (line 48).
QueueKept == failedQueue
QueueAfterProcess == <<>>

Woken(jobs) == {jobs[i].c : i \in 1..Len(jobs)}

\* forceLogout (lines 68-71): expire the 'accessToken' cookie, go to /login.
ForceLogoutStays ==
    /\ accessCookie' = "expired"
    /\ location' = location
ForceLogout ==
    /\ accessCookie' = "expired"
    /\ location' = "/login"

\* The setAccessToken reducer: state.accessToken = action.payload.
SetAccessTokenIgnored(tok) == accessToken
SetAccessToken(tok) == tok

\* The success reaction of the refresh (lines 135-139): the new token is put in
\* the store, the queue is processed, the request is replayed through
\* Api.request, which reads the store.
RefreshThen ==
    /\ microtasks # <<>>
    /\ Head(microtasks).k = "then"
    /\ LET c == Head(microtasks).c
           tok == Head(microtasks).tok
           jobs == ProcessQueue("")
       IN /\ accessToken' = SetAccessToken(tok)
          /\ failedQueue' = QueueAfterProcess
          /\ cpc' = [x \in Callers |->
                        IF x = c THEN "replay"
                        ELSE IF x \in Woken(jobs) THEN "resolved" ELSE cpc[x]]
          /\ SendRequest(c, accessToken')
          /\ microtasks' = Tail(microtasks) \o jobs \o <<Job("finally", c, NoToken, "")>>
    /\ UNCHANGED <<isRefreshing, userData, accessCookie, location, outcome,
                   firstTok, role, behind, epoch, rotateCalls, cyclesDone,
                   issuedAccess,
                   refreshResult, simultaneous>>

\* The failure reaction of the refresh (lines 140-144).
RefreshCatch ==
    /\ microtasks # <<>>
    /\ Head(microtasks).k = "catch"
    /\ LET c == Head(microtasks).c
           err == Head(microtasks).err
           jobs == ProcessQueue(err)
       IN /\ failedQueue' = QueueAfterProcess
          /\ ForceLogout
          /\ cpc' = [x \in Callers |->
                        IF x = c THEN "done"
                        ELSE IF x \in Woken(jobs) THEN "rejected" ELSE cpc[x]]
          /\ outcome' = [outcome EXCEPT ![c] = err]
          /\ microtasks' = Tail(microtasks) \o jobs \o <<Job("finally", c, NoToken, "")>>
    /\ UNCHANGED <<isRefreshing, accessToken, userData, reqTok, firstTok, sends,
                   role, behind, epoch, rotateCalls, cyclesDone, issuedAccess,
                   refreshResult, simultaneous>>

\* isRefreshing = false (line 146).
FlagStuck == TRUE
FlagAfterFinally == FALSE

\* .finally (lines 145-147).
RefreshFinally ==
    /\ microtasks # <<>>
    /\ Head(microtasks).k = "finally"
    /\ isRefreshing' = FlagAfterFinally
    /\ cyclesDone' = cyclesDone + 1
    /\ microtasks' = Tail(microtasks)
    /\ UNCHANGED <<failedQueue, accessToken, userData, accessCookie, location,
                   cpc, outcome, reqTok, firstTok, sends, role, behind, epoch,
                   rotateCalls, issuedAccess,
                   refreshResult, simultaneous>>

\* A resolved entry continues (line 127): the request is replayed through
\* Api.request with the token the store holds now.
QueuedThen ==
    /\ microtasks # <<>>
    /\ Head(microtasks).k = "queuedThen"
    /\ LET c == Head(microtasks).c
       IN /\ cpc' = [cpc EXCEPT ![c] = "replay"]
          /\ SendRequest(c, accessToken)
    /\ microtasks' = Tail(microtasks)
    /\ UNCHANGED <<isRefreshing, failedQueue, accessToken, userData, accessCookie,
                   location, outcome, firstTok, role, behind, epoch, rotateCalls,
                   cyclesDone, issuedAccess,
                   refreshResult, simultaneous>>

\* A rejected entry: the rejection passes through .then (line 127) to the caller.
QueuedReject ==
    /\ microtasks # <<>>
    /\ Head(microtasks).k = "queuedReject"
    /\ Settle(Head(microtasks).c, Head(microtasks).err)
    /\ microtasks' = Tail(microtasks)
    /\ UNCHANGED <<isRefreshing, failedQueue, accessToken, userData, accessCookie,
                   location, firstTok, sends, role, behind, epoch,
                   rotateCalls, cyclesDone, issuedAccess,
                   refreshResult, simultaneous>>

\* Whether the replay goes through requestWithRefresh (lines 127 and 138 call
\* this.request).
ReplayUsesRefreshToo == TRUE
ReplayUsesRefresh == FALSE

\* The replay (lines 127, 138) went through Api.request: whatever it returns or
\* throws is the caller's outcome. Only a replay that went through
\* requestWithRefresh would react to a 401 by refreshing again.
ReplaySettles(c, r) ==
    /\ TaskMayRun
    /\ cpc[c] = "replay"
    /\ IF ReplayUsesRefresh /\ IsUnauthorized(r)
       THEN /\ cpc' = [cpc EXCEPT ![c] = "refreshing"]
            /\ reqTok' = [reqTok EXCEPT ![c] = NoToken]
            /\ isRefreshing' = TRUE
            /\ rotateCalls' = rotateCalls + 1
            /\ UNCHANGED outcome
       ELSE /\ Settle(c, r)
            /\ UNCHANGED <<isRefreshing, rotateCalls>>
    /\ UNCHANGED <<failedQueue, accessToken, userData, accessCookie,
                   location, microtasks, firstTok, sends, role, behind,
                   epoch, cyclesDone, issuedAccess,
                   refreshResult, simultaneous>>

\* ------------------------------------------------------------------ server
\* The user records the run can hold: one that exists from the start and one
\* that registers.
Users == {"u1", "u2"}

\* The value of the refreshToken cookie of a request: absent, a string jwt.verify
\* rejects (malformed, wrong signature, expired), or a signed token with its
\* subject and serial.
NoCookie == [kind |-> "none", sub |-> "", id |-> 0]
BadCookie == [kind |-> "bad", sub |-> "", id |-> 0]
Jwt(u, n) == [kind |-> "jwt", sub |-> u, id |-> n]

\* crypto.createHmac('sha256', secret).update(rfTkn).digest('hex')
Hash(t) == <<"hmac", t.sub, t.id>>

\* jwt.verify(rfTkn, REFRESH_TOKEN.secret) returns the payload (does not throw).
JwtVerifies(t) == t.kind = "jwt"

\* What a response does to the refreshToken cookie.
KeepCookie == [act |-> "keep", tok |-> NoCookie]
ClearCookie == [act |-> "clear", tok |-> NoCookie]
SetCookie(t) == [act |-> "set", tok |-> t]

\* Errors a handler throws. The classes of errors/ carry their statusCode; the
\* errors of jsonwebtoken and of the database driver carry none (0 here).
NoError == [name |-> "", statusCode |-> 0]
UnauthorizedError == [name |-> "UnauthorizedError", statusCode |-> 401]
BadRequestError == [name |-> "BadRequestError", statusCode |-> 400]
ConflictError == [name |-> "ConflictError", statusCode |-> 409]
NotFoundError == [name |-> "NotFoundError", statusCode |-> 404]
JsonWebTokenError == [name |-> "JsonWebTokenError", statusCode |-> 0]
StorageError == [name |-> "MongoError", statusCode |-> 0]

\* errorHandler, line 10: const statusCode = err.statusCode || 500
ErrorHandler(err) == IF err.statusCode # 0 THEN err.statusCode ELSE 500

Response(status, cookie, access) ==
    [status |-> status, cookie |-> cookie, access |-> access]

\* A request whose handler is suspended at an await on the database, with the
\* document it loaded; `used` notes whether the presented token had already been
\* consumed or removed when the document was loaded. The handler has loaded its
\* document and not written yet.
Handler(op, ck, u, doc, used) ==
    [op |-> op, cookie |-> ck, sub |-> u, doc |-> doc, used |-> used,
     at |-> "loaded", err |-> NoError, tok |-> NoCookie]

\* The request has been received and the handler is suspended at an await that
\* does not involve the database (register: bcrypt.hash, line 43).
Received(h) == [h EXCEPT !.at = "received"]

\* The awaited database call has failed; the rejection has not been delivered
\* to the handler yet.
Rejected(h, err) == [h EXCEPT !.at = "rejected", !.err = err]

\* The awaited write has been applied by the database (for a login, a
\* registration or a rotate it stored the hash of `tok`); the handler has not
\* resumed yet.
Written(h, tok) == [h EXCEPT !.at = "written", !.tok = tok]

\* A request that was answered.
Answered(op, ck, u, res) == [op |-> op, cookie |-> ck, sub |-> u, res |-> res]

\* The users collection of a database that holds one user without sessions.
InitAccounts == [u \in Users |-> IF u = "u1" THEN "live" ELSE "none"]

InitServer ==
    /\ db = [u \in Users |-> {}]
    /\ account = InitAccounts
    /\ inflight = EmptyBag
    /\ last = Answered("none", NoCookie, "", Response(0, KeepCookie, FALSE))
    /\ nextId = 1
    /\ started = 0
    /\ completed = 0
    /\ issued = {}
    /\ rotated = {}
    /\ gone = {}
    /\ replayed = {}

\* The collection holds a document with this _id.
Exists(u) == u \in Users /\ account[u] = "live"

\* Cookies a request may carry: none, garbage, a validly signed token no stored
\* hash matches (of a user that exists, or of one that does not), or any token
\* the server has handed out.
CookieChoices ==
    {NoCookie, BadCookie} \cup {Jwt(u, 0) : u \in Users} \cup issued

\* A request can be received.
Receivable == started < MaxReq /\ BagCardinality(inflight) < NSlots

Waiting(op) == {h \in BagToSet(inflight) : h.op = op}

\* Hashes that a write of `newDb` removes from a stored array.
Removed(newDb) == UNION {db[u] \ newDb[u] : u \in Users}

\* The handler sends its response.
Answer(op, ck, u, res) ==
    /\ last' = Answered(op, ck, u, res)
    /\ completed' = completed + 1

\* The request is received and its handler is suspended at its first await.
Suspend(h) ==
    /\ Receivable
    /\ started' = started + 1
    /\ inflight' = inflight (+) SetToBag({h})
    /\ UNCHANGED <<last, completed>>

\* The handler stays suspended, at its next await.
Resuspend(h, g) ==
    /\ inflight' = (inflight (-) SetToBag({h})) (+) SetToBag({g})
    /\ UNCHANGED <<last, completed>>

\* The handler resumes, sends its response and ends.
Finish(h, res) ==
    /\ inflight' = inflight (-) SetToBag({h})
    /\ Answer(h.op, h.cookie, h.sub, res)

\* How the awaited database call of a request ends.
FindOutcomes == {"ok", "refused", "failed"}

\* What User.findUserByCredentials rejects with: an UnauthorizedError for an
\* unknown email or a wrong password, the driver's error when the query fails.
LoginFindErrorAlwaysUnauthorized(r) == UnauthorizedError
LoginFindError(r) == IF r = "failed" THEN StorageError ELSE UnauthorizedError

\* POST /auth/login, lines 16-19: the request is received and
\* findUserByCredentials is awaited; the query loads the user document or fails.
LoginFind(u, r) ==
    /\ Suspend(IF r = "ok" /\ Exists(u)
               THEN Handler("login", NoCookie, u, db[u], FALSE)
               ELSE Rejected(Handler("login", NoCookie, u, {}, FALSE), LoginFindError(r)))
    /\ UNCHANGED <<db, account, nextId, issued, rotated, gone, replayed>>

\* login, catch (lines 31-33): the rejection of findUserByCredentials or of
\* the save is delivered and passed to the error handler as it is.
LoginCatch(h) ==
    /\ h \in Waiting("login")
    /\ h.at = "rejected"
    /\ Finish(h, Response(ErrorHandler(h.err), KeepCookie, FALSE))
    /\ UNCHANGED <<db, account, started, nextId, issued, rotated, gone, replayed>>

\* user.generateRefreshToken() for a document whose tokens array was only
\* appended to: sign a new token, append its hash, save.
GenerateRefreshToken(u, tok) ==
    [db EXCEPT ![u] = @ \cup {Hash(tok)}]

\* user.generateRefreshToken() for a document whose tokens array was reassigned
\* (refreshAccessToken, line 157): sign a new token, append its hash, save the
\* document's array.
GenerateRefreshTokenReplaced(u, doc, tok) ==
    [db EXCEPT ![u] = doc \cup {Hash(tok)}]

\* POST /auth/login, lines 20-21: the document is delivered, the pair is signed
\* and generateRefreshToken is awaited; the database stores the hash, or the
\* save fails (a storage error, or the document has been deleted meanwhile). In
\* both cases the handler stays suspended at the await.
LoginSave(h, ok) ==
    /\ h \in Waiting("login")
    /\ h.at = "loaded"
    /\ LET tok == Jwt(h.sub, nextId)
       IN IF ok /\ Exists(h.sub)
          THEN /\ db' = GenerateRefreshToken(h.sub, tok)
               /\ nextId' = nextId + 1
               /\ Resuspend(h, Written(h, tok))
          ELSE /\ Resuspend(h, Rejected(h, StorageError))
               /\ UNCHANGED <<db, nextId>>
    /\ UNCHANGED <<account, started, issued, rotated, gone, replayed>>

\* POST /auth/login, lines 22-30: the handler resumes after the save, sets the
\* cookie and answers with the access token.
LoginAnswer(h) ==
    /\ h \in Waiting("login")
    /\ h.at = "written"
    /\ issued' = issued \cup {h.tok}
    /\ Finish(h, Response(200, SetCookie(h.tok), TRUE))
    /\ UNCHANGED <<db, account, started, nextId, rotated, gone, replayed>>

\* How a write of register ends: applied, or rejected with a mongoose
\* ValidationError, with a duplicate key error, or with another driver error.
RegisterOutcomes == {"ok", "invalid", "duplicate", "failed"}

\* What register's catch passes to the error handler (lines 59-70): a
\* BadRequestError for a ValidationError, a ConflictError for a duplicate key
\* error, anything else as it is.
RegisterError(r) ==
    IF r = "invalid" THEN BadRequestError
    ELSE IF r = "duplicate" THEN ConflictError
    ELSE StorageError

\* POST /auth/register, lines 37-43: the request is received and bcrypt.hash
\* is awaited; nothing has been sent to the database.
Register(u) ==
    /\ u \in Users
    /\ account[u] # "deleted"
    /\ Suspend(Received(Handler("register", NoCookie, u, {}, FALSE)))
    /\ UNCHANGED <<db, account, nextId, issued, rotated, gone, replayed>>

\* How the insert of a document for u ends: the unique index on the email
\* rejects it when a document of u exists.
InsertOutcome(u, r) == IF r = "ok" /\ account[u] = "live" THEN "duplicate" ELSE r

\* POST /auth/register, lines 45-46: the password hash is delivered and
\* newUser.save() is awaited: the database inserts the document with an empty
\* tokens array, or rejects it (the email is taken, the document is not valid,
\* the insert fails). The _id of a deleted document is not given to a new one.
RegisterInsert(h, r) ==
    /\ h \in Waiting("register")
    /\ h.at = "received"
    /\ r = "duplicate" => account[h.sub] = "live"
    /\ r = "ok" => account[h.sub] # "deleted"
    /\ IF InsertOutcome(h.sub, r) = "ok"
       THEN /\ account' = [account EXCEPT ![h.sub] = "live"]
            /\ Resuspend(h, Handler("register", NoCookie, h.sub, {}, FALSE))
       ELSE /\ Resuspend(h, Rejected(h, RegisterError(InsertOutcome(h.sub, r))))
            /\ UNCHANGED account
    /\ UNCHANGED <<db, started, nextId, issued, rotated, gone, replayed>>

\* register, catch (lines 59-70): the rejection of the insert or of the save is
\* delivered.
RegisterCatch(h) ==
    /\ h \in Waiting("register")
    /\ h.at = "rejected"
    /\ Finish(h, Response(ErrorHandler(h.err), KeepCookie, FALSE))
    /\ UNCHANGED <<db, account, started, nextId, issued, rotated, gone, replayed>>

\* POST /auth/register, lines 47-48: the insert is acknowledged, the pair is
\* signed and generateRefreshToken is awaited; the database stores the hash, or
\* the save fails (the document has been deleted meanwhile, or the database
\* rejects the write). In both cases the handler stays suspended at the await.
RegisterSave(h, r) ==
    /\ h \in Waiting("register")
    /\ h.at = "loaded"
    /\ LET tok == Jwt(h.sub, nextId)
       IN IF r = "ok" /\ Exists(h.sub)
          THEN /\ db' = GenerateRefreshToken(h.sub, tok)
               /\ nextId' = nextId + 1
               /\ Resuspend(h, Written(h, tok))
          ELSE /\ Resuspend(h, Rejected(h, RegisterError(IF r = "ok" THEN "failed" ELSE r)))
               /\ UNCHANGED <<db, nextId>>
    /\ UNCHANGED <<account, started, issued, rotated, gone, replayed>>

\* POST /auth/register, lines 50-58: the handler resumes after the save, sets
\* the cookie and answers 201 with the access token.
RegisterAnswer(h) ==
    /\ h \in Waiting("register")
    /\ h.at = "written"
    /\ issued' = issued \cup {h.tok}
    /\ Finish(h, Response(201, SetCookie(h.tok), TRUE))
    /\ UNCHANGED <<db, account, started, nextId, rotated, gone, replayed>>

\* refreshAccessToken, catch (lines 175-183): clear the cookie, answer 401.
\* Whatever was thrown, next() gets a new UnauthorizedError (lines 180-182).
RotateCatchPassesError(err) == err
RotateCatchError(err) == UnauthorizedError

RotateFailureKeepsCookie(err) == Response(ErrorHandler(RotateCatchError(err)), KeepCookie, FALSE)
RotateFailure(err) == Response(ErrorHandler(RotateCatchError(err)), ClearCookie, FALSE)

\* What the try block of refreshAccessToken throws before the document is loaded
\* (lines 134-142): no cookie, a cookie that does not verify, a query that
\* fails, a query that finds no document (orFail).
RotateFindError(ck, ok) ==
    IF ck.kind = "none" THEN UnauthorizedError
    ELSE IF ~JwtVerifies(ck) THEN JsonWebTokenError
    ELSE IF ~ok THEN StorageError
    ELSE UnauthorizedError

\* The rotate handler that has loaded the user document (line 140).
RotateHandler(ck) ==
    Handler("rotate", ck, ck.sub, db[ck.sub], ck \in rotated \/ Hash(ck) \in gone)

\* The rotate handler suspended at findById (lines 140-142): the query loads
\* the document, or fails (no such user, storage error).
RotateSuspended(ck, ok) ==
    IF Exists(ck.sub) /\ ok THEN RotateHandler(ck)
    ELSE Rejected(Handler("rotate", ck, ck.sub, {}, FALSE), RotateFindError(ck, ok))

\* GET /auth/token, lines 131-142: the cookie is read and verified; without a
\* cookie, or with one that does not verify, the catch answers before any await;
\* otherwise findById is awaited.
RotateFind(ck, ok) ==
    /\ IF ck.kind # "none" /\ JwtVerifies(ck)
       THEN Suspend(RotateSuspended(ck, ok))
       ELSE /\ Receivable
            /\ started' = started + 1
            /\ Answer("rotate", ck, ck.sub, RotateFailure(RotateFindError(ck, ok)))
            /\ UNCHANGED inflight
    /\ UNCHANGED <<db, account, nextId, issued, rotated, gone, replayed>>

\* refreshAccessToken, catch (lines 175-183), when the rejection of findById or
\* of the save is delivered.
RotateCatch(h) ==
    /\ h \in Waiting("rotate")
    /\ h.at = "rejected"
    /\ Finish(h, RotateFailure(h.err))
    /\ UNCHANGED <<db, account, started, nextId, issued, rotated, gone, replayed>>

\* user.tokens.some(...) (lines 149-151), on the document that was loaded.
TokenExistsAlways(doc, ck) == TRUE
TokenExists(doc, ck) == Hash(ck) \in doc

\* user.tokens.filter(...) (line 157).
FilterNothing(doc, ck) == doc
FilterUsed(doc, ck) == doc \ {Hash(ck)}

\* The stored arrays after the refusal of a token whose hash the loaded document
\* does not hold (lines 152-154: the throw leaves the user untouched).
RefusalRevokesAll(u) == [db EXCEPT ![u] = {}]
RefusalKeepsSessions(u) == db

\* The rotate handler suspended at generateRefreshToken (line 161): the save
\* is applied, or fails (a storage error, or the document has been deleted
\* meanwhile).
RotateSaved(h, ok) ==
    IF ok /\ Exists(h.sub) THEN Written(h, Jwt(h.sub, nextId))
    ELSE Rejected(h, StorageError)

\* GET /auth/token, lines 144-161: the document is delivered; the hash is
\* checked against it; a token the document does not hold throws into the
\* catch, which answers before any await. Otherwise the hash is dropped from
\* the document, the pair is signed and generateRefreshToken is awaited: the
\* database stores the document's array, or the save fails.
RotateSave(h, ok) ==
    /\ h \in Waiting("rotate")
    /\ h.at = "loaded"
    /\ LET u == h.sub
           ck == h.cookie
           tok == Jwt(u, nextId)
           newDb == GenerateRefreshTokenReplaced(u, FilterUsed(h.doc, ck), tok)
       IN IF ~TokenExists(h.doc, ck)
          THEN /\ Finish(h, RotateFailure(UnauthorizedError))
               /\ db' = RefusalKeepsSessions(u)
               /\ UNCHANGED <<nextId, gone>>
          ELSE /\ Resuspend(h, RotateSaved(h, ok))
               /\ IF RotateSaved(h, ok).at = "written"
                  THEN /\ db' = newDb
                       /\ nextId' = nextId + 1
                       /\ gone' = gone \cup Removed(newDb)
                  ELSE UNCHANGED <<db, nextId, gone>>
    /\ UNCHANGED <<account, started, issued, rotated, replayed>>

\* GET /auth/token, lines 163-174: the handler resumes after the save, sets the
\* cookie and answers with the access token.
RotateAnswer(h) ==
    /\ h \in Waiting("rotate")
    /\ h.at = "written"
    /\ issued' = issued \cup {h.tok}
    /\ rotated' = rotated \cup {h.cookie}
    /\ replayed' = (IF h.used THEN replayed \cup {h.cookie} ELSE replayed)
    /\ Finish(h, Response(200, SetCookie(h.tok), TRUE))
    /\ UNCHANGED <<db, account, started, nextId, gone>>

\* { $pull: { tokens: { token: rTknHash } } } (lines 106-110); an update of a
\* document that does not exist changes nothing and is no error.
PullAllTokens(u, ck) ==
    IF Exists(u) THEN [db EXCEPT ![u] = {}] ELSE db
PullToken(u, ck) ==
    IF Exists(u) THEN [db EXCEPT ![u] = @ \ {Hash(ck)}] ELSE db

\* The catch of logout clears the cookie before it passes the error on
\* (line 120).
LogoutCatchKeepsCookie == KeepCookie
LogoutCatchCookie == ClearCookie

\* GET /auth/logout, lines 91-110. Without a cookie the handler answers 200 at
\* once; a cookie that does not verify throws into the catch before any await;
\* otherwise findByIdAndUpdate is awaited: the database applies the $pull, or
\* the update fails.
Logout(ck, ok) ==
    /\ IF ck.kind = "none"
       THEN /\ Receivable
            /\ started' = started + 1
            /\ Answer("logout", ck, ck.sub, Response(200, ClearCookie, FALSE))
            /\ UNCHANGED <<inflight, db, gone>>
       ELSE IF ~JwtVerifies(ck)
       THEN /\ Receivable
            /\ started' = started + 1
            /\ Answer("logout", ck, ck.sub,
                      Response(ErrorHandler(JsonWebTokenError), LogoutCatchCookie, FALSE))
            /\ UNCHANGED <<inflight, db, gone>>
       ELSE IF ok
       THEN /\ db' = PullToken(ck.sub, ck)
            /\ gone' = gone \cup Removed(PullToken(ck.sub, ck))
            /\ Suspend(Written(Handler("logout", ck, ck.sub, {}, FALSE), NoCookie))
       ELSE /\ Suspend(Rejected(Handler("logout", ck, ck.sub, {}, FALSE), StorageError))
            /\ UNCHANGED <<db, gone>>
    /\ UNCHANGED <<account, nextId, issued, rotated, replayed>>

\* GET /auth/logout, lines 113-116: the handler resumes after the update,
\* clears the cookie and answers 200.
LogoutAnswer(h) ==
    /\ h \in Waiting("logout")
    /\ h.at = "written"
    /\ Finish(h, Response(200, ClearCookie, FALSE))
    /\ UNCHANGED <<db, account, started, nextId, issued, rotated, gone, replayed>>

\* logout, catch (lines 117-122), when the rejection of the update is
\* delivered: the cookie is cleared and the error handler answers.
LogoutCatch(h) ==
    /\ h \in Waiting("logout")
    /\ h.at = "rejected"
    /\ Finish(h, Response(ErrorHandler(h.err), LogoutCatchCookie, FALSE))
    /\ UNCHANGED <<db, account, started, nextId, issued, rotated, gone, replayed>>

\* DELETE /customers/:id, lines 468-476: the request has passed the guards of
\* the route and findByIdAndDelete is awaited: the database removes the user document with
\* its tokens array, or finds none (orFail: NotFoundError), or fails.
DeleteCustomer(u, ok) ==
    /\ u \in Users
    /\ IF ok /\ Exists(u)
       THEN /\ account' = [account EXCEPT ![u] = "deleted"]
            /\ db' = [db EXCEPT ![u] = {}]
            /\ gone' = gone \cup db[u]
            /\ Suspend(Written(Handler("delete", NoCookie, u, {}, FALSE), NoCookie))
       ELSE /\ Suspend(Rejected(Handler("delete", NoCookie, u, {}, FALSE),
                                IF ok THEN NotFoundError ELSE StorageError))
            /\ UNCHANGED <<account, db, gone>>
    /\ UNCHANGED <<nextId, issued, rotated, replayed>>

\* DELETE /customers/:id, line 477: the handler resumes and answers 200.
DeleteAnswer(h) ==
    /\ h \in Waiting("delete")
    /\ h.at = "written"
    /\ Finish(h, Response(200, KeepCookie, FALSE))
    /\ UNCHANGED <<db, account, started, nextId, issued, rotated, gone, replayed>>

\* deleteCustomer, catch (lines 478-480): the rejection is delivered and
\* passed to the error handler.
DeleteCatch(h) ==
    /\ h \in Waiting("delete")
    /\ h.at = "rejected"
    /\ Finish(h, Response(ErrorHandler(h.err), KeepCookie, FALSE))
    /\ UNCHANGED <<db, account, started, nextId, issued, rotated, gone, replayed>>

ServerReceive ==
    \/ \E u \in Users : \E r \in FindOutcomes : LoginFind(u, r)
    \/ \E u \in Users : Register(u)
    \/ \E ck \in CookieChoices : \E ok \in BOOLEAN : RotateFind(ck, ok)
    \/ \E ck \in CookieChoices : \E ok \in BOOLEAN : Logout(ck, ok)
    \/ \E u \in Users : \E ok \in BOOLEAN : DeleteCustomer(u, ok)

ServerFinish ==
    \/ \E h \in BagToSet(inflight) : \E ok \in BOOLEAN : LoginSave(h, ok)
    \/ \E h \in BagToSet(inflight) : \E r \in RegisterOutcomes : RegisterInsert(h, r)
    \/ \E h \in BagToSet(inflight) : \E r \in RegisterOutcomes : RegisterSave(h, r)
    \/ \E h \in BagToSet(inflight) : \E ok \in BOOLEAN : RotateSave(h, ok)
    \/ \E h \in BagToSet(inflight) : LoginAnswer(h) \/ LoginCatch(h)
    \/ \E h \in BagToSet(inflight) : RegisterAnswer(h) \/ RegisterCatch(h)
    \/ \E h \in BagToSet(inflight) : RotateAnswer(h) \/ RotateCatch(h)
    \/ \E h \in BagToSet(inflight) : LogoutAnswer(h) \/ LogoutCatch(h)
    \/ \E h \in BagToSet(inflight) : DeleteAnswer(h) \/ DeleteCatch(h)

NextServer == ServerReceive \/ ServerFinish

\* The same handlers in the runs where requests come one after the other: a
\* request arrives only when no handler is suspended. Every step is a step of
\* NextServer; the runs with overlapping requests are left out.
NextServerSeq == (inflight = EmptyBag /\ ServerReceive) \/ ServerFinish

ClientProgress ==
    \/ \E c \in Callers : RespOk(c) \/ RespOther(c) \/ Resp401(c)
    \/ \E c \in Callers : \E r \in {"ok"} \cup RefreshErrors : RefreshSettles(c, r)
    \/ RefreshThen
    \/ RefreshCatch
    \/ RefreshFinally
    \/ QueuedThen
    \/ QueuedReject
    \/ \E c \in Callers : \E r \in {"ok", "401", "other"} : ReplaySettles(c, r)

NextClient ==
    \/ \E c \in Callers : Call(c)
    \/ ClientProgress

\* WebLarekAPI.loginUser, registerUser (lines 262-276).
AuthEndpoints == {"/auth/login", "/auth/register"}

\* Whether the API method of the endpoint goes through requestWithRefresh
\* (loginUser and registerUser call this.request).
UsesRefreshAlways(ep) == TRUE
UsesRefresh(ep) == ep \notin AuthEndpoints

InitAuth == authPc = "idle" /\ authEp = "none" /\ authCaller = 0

\* loginUser / registerUser is called: Api.request sends the credentials.
AuthCall(ep) ==
    /\ TaskMayRun
    /\ authPc = "idle"
    /\ authPc' = "sent"
    /\ authEp' = ep
    /\ authCaller' = 0
    /\ UNCHANGED clientVars

\* The response of the login or registration request. A success is stored by
\* loginUser.fulfilled / registerUser.fulfilled; a failure is the rejection of
\* Api.request, handed to the caller. Only a method that goes through
\* requestWithRefresh would react to a 401 by refreshing.
AuthResp(st) ==
    /\ TaskMayRun
    /\ authPc = "sent"
    /\ authEp \in AuthEndpoints
    /\ authEp' = "none"
    /\ authCaller' = 0
    /\ IF st = "ok"
       THEN /\ authPc' = "ok"
            /\ accessToken' = issuedAccess + 1
            /\ issuedAccess' = issuedAccess + 1
            /\ userData' = TRUE
            /\ UNCHANGED <<isRefreshing, rotateCalls>>
       ELSE IF UsesRefresh(authEp) /\ IsUnauthorized(st)
       THEN /\ authPc' = "refreshing"
            /\ isRefreshing' = TRUE
            /\ rotateCalls' = rotateCalls + 1
            /\ UNCHANGED <<accessToken, issuedAccess, userData>>
       ELSE /\ authPc' = st
            /\ UNCHANGED <<accessToken, issuedAccess, userData, isRefreshing, rotateCalls>>
    /\ UNCHANGED <<failedQueue, accessCookie, location, microtasks, cpc, outcome,
                   reqTok, firstTok, sends, role, behind, epoch, cyclesDone,
                   refreshResult, simultaneous>>

NextAuth ==
    \/ \E ep \in AuthEndpoints : AuthCall(ep)
    \/ \E st \in {"ok", "401", "other"} : AuthResp(st)

\* The checkUserAuth thunk has called api.getUser() through requestWithRefresh,
\* that call has settled and the thunk's own continuation, a promise reaction,
\* has not run yet.
ThunkPending ==
    /\ authPc = "sent"
    /\ authEp = "/auth/user"
    /\ cpc[authCaller] = "done"

\* A task of the page starts when the promise reactions have run, the one of
\* a settled thunk included.
PageTaskMayRun == TaskMayRun /\ ~ThunkPending

\* The logout reducer (part_001, lines 35-40) and the logoutUser.fulfilled case
\* (lines 72-78): the user data and the access token are reset.
LogoutReducer ==
    /\ accessToken' = NoToken
    /\ userData' = FALSE

\* The resetUser reducer (part_001, lines 41-46), dispatched by the page: the
\* same resets.
ResetUser ==
    /\ PageTaskMayRun
    /\ accessToken' = NoToken
    /\ userData' = FALSE
    /\ UNCHANGED <<isRefreshing, failedQueue, accessCookie, location, microtasks, cpc,
                   outcome, reqTok, firstTok, sends, role, behind, epoch, rotateCalls,
                   cyclesDone, refreshResult, simultaneous, issuedAccess>>
    /\ UNCHANGED authVars

\* The checkUserAuth thunk is dispatched (thunk.ts, lines 12-17): api.getUser()
\* is a call of requestWithRefresh (weblarek-api.ts, lines 278-282).
CheckUserAuth(c) ==
    /\ authPc = "idle"
    /\ Call(c)
    /\ authPc' = "sent"
    /\ authEp' = "/auth/user"
    /\ authCaller' = c

\* The thunk settles as its call did. checkUserAuth.fulfilled (part_001, lines
\* 50-53) stores the user and leaves the access token as it is;
\* checkUserAuth.rejected (lines 54-59) resets the user data and the token.
CheckUserAuthSettles ==
    /\ microtasks = <<>>
    /\ ThunkPending
    /\ authEp' = "none"
    /\ authCaller' = 0
    /\ IF outcome[authCaller] = "ok"
       THEN /\ authPc' = "fulfilled"
            /\ userData' = TRUE
            /\ UNCHANGED accessToken
       ELSE /\ authPc' = "rejected"
            /\ userData' = FALSE
            /\ accessToken' = NoToken
    /\ UNCHANGED <<isRefreshing, failedQueue, accessCookie, location, microtasks, cpc,
                   outcome, reqTok, firstTok, sends, role, behind, epoch, rotateCalls,
                   cyclesDone, refreshResult, simultaneous, issuedAccess>>

\* The logoutUser thunk is dispatched: WebLarekAPI.logoutUser sends
\* GET /auth/logout through Api.request.
LogoutCall ==
    /\ PageTaskMayRun
    /\ authPc = "idle"
    /\ authPc' = "sent"
    /\ authEp' = "/auth/logout"
    /\ authCaller' = 0
    /\ UNCHANGED clientVars

\* What `useDispatch()` does when the thunk calls it (thunk.ts, line 52): it
\* hands back the store's dispatch, or it throws, as a React hook does when it
\* is called outside the rendering of a component.
HookOutcomes == {"dispatch", "throws"}

\* The thunk continues after `await api.logoutUser()` (thunk.ts, lines 47-55).
\* When the request is rejected (an error status, or no response) the await
\* throws, the lines after it do not run and the thunk is rejected. When it is
\* fulfilled the cookies are expired (lines 49-50; the refreshToken cookie is
\* not script-visible) and useDispatch is called: with the dispatch it returns,
\* logout() and then logoutUser.fulfilled reset the store; when it throws, the
\* thunk is rejected and the store stays as it is.
LogoutResp(st, hook) ==
    /\ PageTaskMayRun
    /\ authPc = "sent"
    /\ authEp = "/auth/logout"
    /\ authEp' = "none"
    /\ authCaller' = 0
    /\ IF st = "ok"
       THEN /\ accessCookie' = "expired"
            /\ IF hook = "dispatch"
               THEN /\ authPc' = "fulfilled"
                    /\ LogoutReducer
               ELSE /\ authPc' = "rejected"
                    /\ UNCHANGED <<accessToken, userData>>
       ELSE /\ authPc' = "rejected"
            /\ UNCHANGED <<accessCookie, accessToken, userData>>
    /\ UNCHANGED <<isRefreshing, failedQueue, location, microtasks, cpc, outcome,
                   reqTok, firstTok, sends, role, behind, epoch, rotateCalls,
                   cyclesDone, refreshResult, simultaneous, issuedAccess>>

\* The thunks and reducers of the user slice next to the gateway.
NextLogout ==
    \/ LogoutCall
    \/ \E st \in {"ok", "500", "net"} : \E hook \in HookOutcomes : LogoutResp(st, hook)
    \/ ResetUser
    \/ \E c \in Callers : CheckUserAuth(c)
    \/ CheckUserAuthSettles

\* ------------------------------------------------- protected routes (server)
\* Number of requests to a protected route in one run.
MaxGuardLog == 3

\* ForbiddenError carries statusCode 403.
ForbiddenError == [name |-> "ForbiddenError", statusCode |-> 403]

\* The Authorization header of a request: absent, another scheme, or
\* 'Bearer <token>' with a token that verifies, has expired, is malformed
\* (or empty, or the text 'null'), or verifies for a user that no longer exists.
NoHeader == [scheme |-> "none", tok |-> "none"]
AuthHeaders ==
    {NoHeader, [scheme |-> "Basic", tok |-> "none"]}
        \cup {[scheme |-> "Bearer", tok |-> t] :
                  t \in {"valid", "expired", "malformed", "orphan"}}

\* authHeader?.startsWith('Bearer ') (line 12).
StartsWithBearer(h) == h.scheme = "Bearer"

\* The auth middleware (lines 10-34). It is an async function: the throw of
\* line 13, outside the try, rejects the promise it returns and next is never
\* called; inside the try every throw reaches the catch, which calls next with
\* an UnauthorizedError; a user that is not found gives a ForbiddenError.
Auth(h, dbOk) ==
    IF ~StartsWithBearer(h) THEN [via |-> "rejected", err |-> UnauthorizedError]
    ELSE IF h.tok \in {"expired", "malformed"} THEN [via |-> "next", err |-> UnauthorizedError]
    ELSE IF ~dbOk THEN [via |-> "next", err |-> UnauthorizedError]
    ELSE IF h.tok = "orphan" THEN [via |-> "next", err |-> ForbiddenError]
    ELSE [via |-> "next", err |-> [name |-> "", statusCode |-> 0]]

\* What becomes of a request whose middleware returned a rejected promise: the
\* router does not look at the value a middleware returns, so no response is
\* ever sent, and the unhandled rejection either is only reported or ends the
\* process.
RejectedFates == {"hang", "crash"}

\* The routes of authRouter behind the auth middleware (part_009, lines
\* 26-28): GET /auth/user, PATCH /auth/me, GET /auth/user/roles.
GuardRoutes == {"/user", "/me", "/user/roles"}

\* A request to a protected route as the log keeps it: its route and header,
\* the status it was answered with (0 while it has none), whether the route's
\* handler has run, and where it stands: suspended in the middleware at
\* `await UserModel.findById` ("pending"), suspended in the handler
\* ("handling"), answered, left without an answer by the rejected promise
\* ("hang", "crash"), or cut off when the process ended ("dropped").
GuardEntry(rt, h, st, ran, fate) ==
    [route |-> rt, header |-> h, status |-> st, handlerRan |-> ran, fate |-> fate]

\* The middleware up to its first await (lines 11-20): the throw of line 13
\* rejects the promise; jwt.verify is synchronous, so an expired or malformed
\* token reaches the catch, next(err) and errorHandler at once; any other token
\* leaves the middleware suspended at findById.
Guarded(rt, h, fate) ==
    IF ~StartsWithBearer(h) THEN GuardEntry(rt, h, 0, FALSE, fate)
    ELSE IF h.tok \in {"expired", "malformed"}
    THEN GuardEntry(rt, h, ErrorHandler(Auth(h, TRUE).err), FALSE, "answered")
    ELSE GuardEntry(rt, h, 0, FALSE, "pending")

\* The middleware after findById settled (lines 20-33): next(err) is answered by
\* errorHandler; next() starts the route's handler, which suspends at its own
\* query.
Resumed(g, dbOk) ==
    LET a == Auth(g.header, dbOk)
    IN IF a.err.name = ""
       THEN GuardEntry(g.route, g.header, 0, TRUE, "handling")
       ELSE GuardEntry(g.route, g.header, ErrorHandler(a.err), FALSE, "answered")

\* How the query of a handler settles: it delivers the document, finds none
\* (orFail), or is rejected: by the unique index on the email (code 11000), by
\* a validator (ValidationError), or with another error of the driver. Only the
\* update of PATCH /me writes, so only it meets the index and the validators.
HandlerOutcomes(rt) ==
    {"ok", "missing", "failed"} \cup (IF rt = "/me" THEN {"duplicate", "invalid"} ELSE {})

\* A mongoose ValidationError carries no statusCode.
ValidationError == [name |-> "ValidationError", statusCode |-> 0]

\* getCurrentUser after its findById(...).orFail(...) settled (part_007, lines
\* 80-87): the user is sent, or the NotFoundError of orFail (the user was
\* deleted meanwhile) or the error of the query goes to next and errorHandler.
GetCurrentUser(r) ==
    IF r = "ok" THEN 200
    ELSE IF r = "missing" THEN ErrorHandler(NotFoundError)
    ELSE ErrorHandler(StorageError)

\* getCurrentUserRoles after its findById(...).orFail(...) settled (lines
\* 194-200): the roles are sent with status 200, or the error goes to next.
GetCurrentUserRoles(r) ==
    IF r = "ok" THEN 200
    ELSE IF r = "missing" THEN ErrorHandler(NotFoundError)
    ELSE ErrorHandler(StorageError)

\* updateCurrentUser after its findByIdAndUpdate(...).orFail(...) settled
\* (lines 211-225): the updated user is sent; a duplicate key error becomes a
\* ConflictError; any other error goes to next as it is.
UpdateCurrentUser(r) ==
    IF r = "ok" THEN 200
    ELSE IF r = "duplicate" THEN ErrorHandler(ConflictError)
    ELSE IF r = "missing" THEN ErrorHandler(NotFoundError)
    ELSE IF r = "invalid" THEN ErrorHandler(ValidationError)
    ELSE ErrorHandler(StorageError)

\* The answer of the handler of the route.
HandlerStatus(rt, r) ==
    IF rt = "/user" THEN GetCurrentUser(r)
    ELSE IF rt = "/me" THEN UpdateCurrentUser(r)
    ELSE GetCurrentUserRoles(r)

\* The requests that have no answer yet when the process ends never get one.
Dropped(log) ==
    [i \in 1..Len(log) |->
        IF log[i].fate \in {"pending", "handling"}
        THEN GuardEntry(log[i].route, log[i].header, 0, log[i].handlerRan, "dropped")
        ELSE log[i]]

InitGuard == guardLog = <<>> /\ serverUp = TRUE

\* A request to a protected route enters the middleware, which runs to its
\* first await. A rejected promise that ends the process takes the suspended
\* requests with it.
GuardRequest(rt, h, fate) ==
    /\ serverUp
    /\ Len(guardLog) < MaxGuardLog
    /\ LET g == Guarded(rt, h, fate)
       IN /\ serverUp' = (g.fate # "crash")
          /\ guardLog' = Append(IF g.fate = "crash" THEN Dropped(guardLog) ELSE guardLog, g)

\* findById of the middleware settles and the middleware resumes.
GuardResume(i, dbOk) ==
    /\ serverUp
    /\ i \in 1..Len(guardLog)
    /\ guardLog[i].fate = "pending"
    /\ guardLog' = [guardLog EXCEPT ![i] = Resumed(@, dbOk)]
    /\ UNCHANGED serverUp

\* The query of the handler settles and the handler answers.
GuardAnswer(i, r) ==
    /\ serverUp
    /\ i \in 1..Len(guardLog)
    /\ guardLog[i].fate = "handling"
    /\ r \in HandlerOutcomes(guardLog[i].route)
    /\ guardLog' = [guardLog EXCEPT
                      ![i] = GuardEntry(@.route, @.header, HandlerStatus(@.route, r), TRUE,
                                        "answered")]
    /\ UNCHANGED serverUp

\* The process is started again after it ended.
GuardRestart ==
    /\ ~serverUp
    /\ serverUp' = TRUE
    /\ UNCHANGED guardLog

NextGuard ==
    \/ \E rt \in GuardRoutes : \E h \in AuthHeaders : \E fate \in RejectedFates :
          GuardRequest(rt, h, fate)
    \/ \E i \in 1..MaxGuardLog : \E dbOk \in BOOLEAN : GuardResume(i, dbOk)
    \/ \E i \in 1..MaxGuardLog : \E r \in UNION {HandlerOutcomes(rt) : rt \in GuardRoutes} :
          GuardAnswer(i, r)
    \/ GuardRestart

\* ------------------------------------------ the page joined with the server
\* The user of the page, and the refresh token its login was given.
SessionUser == "u1"
LoginCookie == Jwt(SessionUser, 1)

NoHandler == Handler("none", NoCookie, "", {}, FALSE)
NoResponse == Response(0, KeepCookie, FALSE)

\* The GET /auth/token exchange of the page: nothing, the request on its way
\* with the cookie the browser attached, the handler at work, or the response
\* on its way back.
Wire(st, ck, h, res) == [st |-> st, cookie |-> ck, h |-> h, res |-> res]
NoWire == Wire("none", NoCookie, NoHandler, NoResponse)

\* The browser applies the Set-Cookie header of a response to its jar.
StoreCookieIgnored(old, cookie) == old
StoreCookie(old, cookie) ==
    IF cookie.act = "set" THEN cookie.tok
    ELSE IF cookie.act = "clear" THEN NoCookie
    ELSE old

InitSessionIdle ==
    /\ wire = NoWire
    /\ authWire = NoWire
    /\ jar = NoCookie
    /\ presented = <<>>
    /\ answerLost = FALSE

Init == InitClient /\ InitAuth /\ InitServer /\ InitGuard /\ InitSessionIdle

SpecClient ==
    Init /\ [][NextClient /\ UNCHANGED <<authVars, serverVars, guardVars, sessionVars>>]_vars

\* The gateway together with a login or registration call of the same page.
SpecAuth ==
    Init /\ [][((NextClient /\ UNCHANGED authVars) \/ NextAuth)
                  /\ UNCHANGED <<serverVars, guardVars, sessionVars>>]_vars

\* A page that is logged in holds the cookie of its login and the server holds
\* its hash; a fresh page holds no cookie.
InitSession ==
    /\ InitClient /\ InitAuth /\ InitGuard
    /\ wire = NoWire
    /\ authWire = NoWire
    /\ presented = <<>>
    /\ answerLost = FALSE
    /\ inflight = EmptyBag
    /\ last = Answered("none", NoCookie, "", NoResponse)
    /\ started = 0
    /\ completed = 0
    /\ rotated = {}
    /\ gone = {}
    /\ replayed = {}
    /\ jar = (IF userData THEN LoginCookie ELSE NoCookie)
    /\ db = [u \in Users |-> IF userData /\ u = SessionUser THEN {Hash(LoginCookie)} ELSE {}]
    /\ account = InitAccounts
    /\ issued = (IF userData THEN {LoginCookie} ELSE {})
    /\ nextId = (IF userData THEN 2 ELSE 1)

\* A 401 arrives; the caller that starts the refresh calls fetch with
\* credentials: 'include' (lines 103-106), so the request carries the cookie
\* the jar holds.
SessStart(c) ==
    /\ Resp401(c)
    /\ IF cpc'[c] = "refreshing"
       THEN wire' = Wire("request", jar, NoHandler, NoResponse)
       ELSE wire' = wire
    /\ UNCHANGED <<authWire, jar, presented, answerLost, serverVars, authVars, guardVars>>

\* The handler a step of the server left suspended, if it left one.
Continued ==
    LET new == {g \in BagToSet(inflight') : CopiesIn(g, inflight') > CopiesIn(g, inflight)}
    IN IF new = {} THEN NoHandler ELSE CHOOSE g \in new : TRUE

\* The exchange w once the server has taken a step on its request: the answer
\* on its way back, or the handler suspended at its next await.
Handled(w) ==
    IF completed' # completed
    THEN Wire("response", w.cookie, NoHandler, last'.res)
    ELSE Wire("handling", w.cookie, Continued, NoResponse)

\* The request reaches the server: refreshAccessToken reads the cookie.
SessFind(ok) ==
    /\ wire.st = "request"
    /\ RotateFind(wire.cookie, ok)
    /\ presented' = Append(presented, wire.cookie)
    /\ wire' = Handled(wire)
    /\ UNCHANGED <<authWire, jar, answerLost, clientVars, authVars, guardVars>>

\* The handler of the page's request checks the token and saves.
SessSave(ok) ==
    /\ wire.st = "handling"
    /\ RotateSave(wire.h, ok)
    /\ wire' = Handled(wire)
    /\ UNCHANGED <<authWire, jar, presented, answerLost, clientVars, authVars, guardVars>>

\* The handler of the page's request resumes and answers.
SessAnswer ==
    /\ wire.st = "handling"
    /\ RotateAnswer(wire.h) \/ RotateCatch(wire.h)
    /\ wire' = Handled(wire)
    /\ UNCHANGED <<authWire, jar, presented, answerLost, clientVars, authVars, guardVars>>

\* The status line and the headers of the answer reach the browser, which
\* stores the cookie; fetch resolves, and handleResponse (lines 73-81) starts to
\* read the body with response.json().
SessHeaders ==
    /\ wire.st = "response"
    /\ jar' = StoreCookie(jar, wire.res.cookie)
    /\ wire' = [wire EXCEPT !.st = "body"]
    /\ UNCHANGED <<authWire, presented, answerLost, clientVars, authVars, serverVars, guardVars>>

\* response.json() settles and with it Api.refreshToken: fulfilled for a 200,
\* rejected with the status for another answer, rejected without one when the
\* body cannot be read (the connection breaks, the body is not JSON).
SessBody(c, ok) ==
    /\ wire.st = "body"
    /\ RefreshSettles(c, IF ~ok THEN "refreshNet"
                         ELSE IF wire.res.status = 200 THEN "ok" ELSE "refresh401")
    /\ wire' = NoWire
    /\ UNCHANGED <<authWire, jar, presented, answerLost, serverVars, authVars, guardVars>>

\* The transport fails before any header has arrived: fetch rejects. A request
\* that was on its way never arrives; when the server had the request already,
\* its answer is lost.
SessLost(c) ==
    /\ wire.st \in {"request", "handling", "response"}
    /\ RefreshSettles(c, "refreshNet")
    /\ wire' = NoWire
    /\ answerLost' = (answerLost \/ wire.st \in {"handling", "response"})
    /\ UNCHANGED <<authWire, jar, presented, serverVars, authVars, guardVars>>

\* loginUser, registerUser and logoutUser of WebLarekAPI (lines 262-276 and
\* 313-318) call Api.request with credentials: 'include'.
PageEndpoints == AuthEndpoints \cup {"/auth/logout"}

\* The page logs in, registers or logs out: the request carries the cookie the
\* jar holds.
SessAuthCall(ep) ==
    /\ IF ep = "/auth/logout" THEN LogoutCall ELSE AuthCall(ep)
    /\ authWire' = Wire("request", jar, NoHandler, NoResponse)
    /\ UNCHANGED <<wire, jar, presented, answerLost, serverVars, guardVars>>

\* The request reaches the server and its handler runs to its first await (or
\* answers at once).
SessAuthFind ==
    /\ authWire.st = "request"
    /\ \/ authEp = "/auth/login" /\ \E r \in FindOutcomes : LoginFind(SessionUser, r)
       \/ authEp = "/auth/register" /\ \E u \in Users : Register(u)
       \/ authEp = "/auth/logout" /\ \E ok \in BOOLEAN : Logout(authWire.cookie, ok)
    /\ authWire' = Handled(authWire)
    /\ UNCHANGED <<wire, jar, presented, answerLost, clientVars, authVars, guardVars>>

\* One step of a suspended handler of the auth controller: an awaited call on
\* the database settles, or the handler resumes and answers.
HandlerStep(h) ==
    \/ \E ok \in BOOLEAN : LoginSave(h, ok)
    \/ \E r \in RegisterOutcomes : RegisterInsert(h, r)
    \/ \E r \in RegisterOutcomes : RegisterSave(h, r)
    \/ \E ok \in BOOLEAN : RotateSave(h, ok)
    \/ LoginAnswer(h) \/ LoginCatch(h)
    \/ RegisterAnswer(h) \/ RegisterCatch(h)
    \/ RotateAnswer(h) \/ RotateCatch(h)
    \/ LogoutAnswer(h) \/ LogoutCatch(h)

\* The handler of the page's login, registration or logout takes a step.
SessAuthStep ==
    /\ authWire.st = "handling"
    /\ HandlerStep(authWire.h)
    /\ authWire' = Handled(authWire)
    /\ UNCHANGED <<wire, jar, presented, answerLost, clientVars, authVars, guardVars>>

\* The headers of the answer reach the browser, which stores or clears the
\* cookie; Api.request goes on to read the body.
SessAuthHeaders ==
    /\ authWire.st = "response"
    /\ jar' = StoreCookie(jar, authWire.res.cookie)
    /\ authWire' = [authWire EXCEPT !.st = "body"]
    /\ UNCHANGED <<wire, presented, answerLost, clientVars, authVars, serverVars, guardVars>>

\* How Api.request settles for the thunk: fulfilled (response.ok), rejected
\* with the statusCode of the answer, or rejected without one.
AuthStatus(res) ==
    IF res.status \in {200, 201} THEN "ok" ELSE IF res.status = 401 THEN "401" ELSE "other"
LogoutStatus(res) == IF res.status \in {200, 201} THEN "ok" ELSE "500"

\* The thunk of the page's call continues with the outcome of Api.request.
SessAuthSettles(login, logout, hook) ==
    IF authEp = "/auth/logout" THEN LogoutResp(logout, hook) ELSE AuthResp(login)

\* The body has been read, or reading it failed.
SessAuthBody(ok, hook) ==
    /\ authWire.st = "body"
    /\ SessAuthSettles(IF ok THEN AuthStatus(authWire.res) ELSE "other",
                       IF ok THEN LogoutStatus(authWire.res) ELSE "net", hook)
    /\ authWire' = NoWire
    /\ UNCHANGED <<wire, jar, presented, answerLost, serverVars, guardVars>>

\* The transport fails before any header has arrived: fetch rejects.
SessAuthLost(hook) ==
    /\ authWire.st \in {"request", "handling", "response"}
    /\ SessAuthSettles("other", "net", hook)
    /\ authWire' = NoWire
    /\ UNCHANGED <<wire, jar, presented, answerLost, serverVars, guardVars>>

\* The handler of a request the page has given up: there are more suspended
\* copies of it than exchanges of the page that wait for it.
Orphan(h) ==
    CopiesIn(h, inflight) > Cardinality({w \in {wire, authWire} : w.st = "handling" /\ w.h = h})

\* A handler whose request the page has given up takes a step; nobody reads
\* its answer.
SessOrphanStep ==
    /\ \E h \in BagToSet(inflight) : Orphan(h) /\ HandlerStep(h)
    /\ UNCHANGED <<sessionVars, clientVars, authVars, guardVars>>

\* The steps of the gateway that do not touch the exchanges.
SessClient ==
    /\ \/ \E c \in 1..NSessCallers : Call(c) \/ RespOk(c) \/ RespOther(c)
       \/ RefreshThen
       \/ RefreshCatch
       \/ RefreshFinally
       \/ QueuedThen
       \/ QueuedReject
       \/ \E c \in 1..NSessCallers : \E r \in {"ok", "401", "other"} : ReplaySettles(c, r)
    /\ UNCHANGED <<sessionVars, serverVars, authVars, guardVars>>

NextSession ==
    \/ SessClient
    \/ \E c \in 1..NSessCallers : SessStart(c)
    \/ \E ok \in BOOLEAN : SessFind(ok)
    \/ \E ok \in BOOLEAN : SessSave(ok)
    \/ SessAnswer
    \/ SessHeaders
    \/ \E c \in 1..NSessCallers : \E ok \in BOOLEAN : SessBody(c, ok)
    \/ \E c \in 1..NSessCallers : SessLost(c)
    \/ \E ep \in PageEndpoints : SessAuthCall(ep)
    \/ SessAuthFind
    \/ SessAuthStep
    \/ SessAuthHeaders
    \/ \E ok \in BOOLEAN : \E hook \in HookOutcomes : SessAuthBody(ok, hook)
    \/ \E hook \in HookOutcomes : SessAuthLost(hook)
    \/ SessOrphanStep

\* One page and the server it talks to.
SpecSession == InitSession /\ [][NextSession]_vars

\* The gateway together with the thunks and reducers of the user slice that
\* reset the store. While a settled thunk waits for its continuation only
\* promise reactions run.
SpecLogout ==
    Init /\ [][((NextClient /\ (ThunkPending => ~TaskMayRun) /\ UNCHANGED authVars)
                      \/ NextLogout)
                  /\ UNCHANGED <<serverVars, guardVars, sessionVars>>]_vars

\* Every request sent gets a response or fails, and the event loop runs every
\* queued reaction.
FairSpecClient ==
    SpecClient /\ WF_vars(ClientProgress
                              /\ UNCHANGED <<authVars, serverVars, guardVars, sessionVars>>)

\* The server specifications leave the client as a fresh page.
InitAtServer == Init /\ ~userData

SpecServer ==
    InitAtServer /\ [][NextServer /\ UNCHANGED <<clientVars, authVars, guardVars, sessionVars>>]_vars

SpecServerSeq ==
    InitAtServer
        /\ [][NextServerSeq /\ UNCHANGED <<clientVars, authVars, guardVars, sessionVars>>]_vars

\* The protected routes alone.
SpecGuard ==
    InitAtServer
        /\ [][NextGuard /\ UNCHANGED <<clientVars, authVars, serverVars, sessionVars>>]_vars


\* ------------------------------------------------------------------ claims
\* Callers that observed a 401 on their first request.
Observers == {c \in Callers : role[c] # "none"}

\* C1: across all concurrent callers of requestWithRefresh, at most one
\* GET /auth/token call is in flight at any time.
C1_SingleRefreshInFlight ==
    Cardinality({c \in Callers : cpc[c] = "refreshing"}) <= 1

\* A refresh is in flight while every other caller has had its 401 and waits in
\* the queue.
C1_Witness ==
    /\ \E c \in Callers : cpc[c] = "refreshing"
    /\ Len(failedQueue) = NCallers - 1

\* C4, as claimed: N simultaneous calls that all receive 401 for the same
\* access token cause exactly one GET /auth/token, whatever the order in which the
\* 401 responses and the refresh response arrive.
C4_OneRotateForAnyOrder ==
    (/\ simultaneous
     /\ Observers = Callers
     /\ \A c \in Callers : firstTok[c] = FirstToken) => rotateCalls = 1

\* C4, amended: the 401 responses that arrive within one refresh cycle (before
\* the flag set by the first of them is cleared) share one GET /auth/token; a 401
\* that arrives after the cycle has completed starts the next one. The number of
\* refresh calls is the number of cycles in which a 401 arrived.
C4_OneRotatePerCycle ==
    /\ rotateCalls = Cardinality({epoch[c] : c \in Observers})
    /\ \A c \in Observers :
          role[c] = "refresher" <=> (\A b \in Observers \ {c} :
                                        epoch[b] = epoch[c] => role[b] = "queued")

\* All callers called at once, all got their 401 within the first cycle, one
\* refresh call was made and every replay succeeded.
C4_Witness ==
    /\ simultaneous
    /\ Observers = Callers
    /\ \A c \in Callers : firstTok[c] = FirstToken
    /\ \A c \in Callers : epoch[c] = 0 /\ outcome[c] = "ok"
    /\ rotateCalls = 1

\* C5: every caller that observed a 401, whether it started the refresh or
\* queued behind one, eventually has a settled outcome.
C5_ObserversSettle ==
    \A c \in Callers : (role[c] # "none") ~> (cpc[c] = "done")

\* A queued caller and the refresher it waited on have both settled.
C5_Witness ==
    \E c, q \in Callers :
        /\ role[c] = "refresher" /\ cpc[c] = "done"
        /\ role[q] = "queued" /\ behind[q] = c /\ cpc[q] = "done"

\* C6: when the flag is cleared the queue is empty and no caller that was put
\* in the queue is still waiting for its entry to be settled.
C6_NoLostWakeups ==
    [][(isRefreshing /\ ~isRefreshing') =>
          (failedQueue = <<>> /\ \A c \in Callers : cpc[c] # "queued")]_vars

\* A refresh cycle with queued callers has completed.
C6_Witness ==
    /\ ~isRefreshing
    /\ cyclesDone > 0
    /\ Cardinality({c \in Callers : role[c] = "queued"}) >= 2
    /\ microtasks = <<>>

\* C9: once the failure reaction of a refresh has run, the caller that started
\* the refresh has been rejected with the refresh error, every caller that was
\* queued behind it has left the queue and is rejected with the same error.
InQueue(c) == \E i \in 1..Len(failedQueue) : failedQueue[i] = c

C9_ForcedLogoutPropagation ==
    \A c \in Callers :
        (refreshResult[c] \in RefreshErrors /\ cpc[c] # "settling") =>
            /\ cpc[c] = "done"
            /\ outcome[c] = refreshResult[c]
            /\ \A q \in Callers :
                  behind[q] = c =>
                      /\ ~InQueue(q)
                      /\ cpc[q] \in {"rejected", "done"}
                      /\ cpc[q] = "done" => outcome[q] = refreshResult[c]

\* A refresh failed with callers queued behind it, and they were rejected.
C9_Witness ==
    \E c \in Callers :
        /\ refreshResult[c] \in RefreshErrors
        /\ Cardinality({q \in Callers : behind[q] = c /\ cpc[q] = "done"
                                         /\ outcome[q] = refreshResult[c]}) >= 2

\* C10, as claimed: after a forced logout the store holds no access token and
\* no user data.
C10_SessionEmptyAfterForcedLogout ==
    location = "/login" => (accessToken = NoToken /\ ~userData)

\* A rotate call was answered in this step.
RotateAnswered == completed' # completed /\ last'.op = "rotate"

\* C2: served one request at a time, a raw refresh token is accepted by rotate
\* at most once: the successful rotate removes its hash, and every later rotate
\* with the same raw token is refused.
C2_OneTimeUse ==
    /\ replayed = {}
    /\ \A t \in rotated : Hash(t) \notin db[t.sub]

\* A rotate with a token that an earlier rotate had consumed was refused.
C2_Witness ==
    /\ last.op = "rotate"
    /\ last.cookie \in rotated
    /\ last.res.status = 401
    /\ last.res.cookie.act = "clear"

\* C3, as claimed: of the rotate calls made with one raw token, concurrent or
\* not, at most one is answered with a new pair.
C3_AtomicRotation ==
    [][(RotateAnswered /\ last'.res.status = 200) => last'.cookie \notin rotated]_vars

\* C7, as claimed: a hash that has left a user's stored array is never in it
\* again, and a raw token is never accepted by rotate after its hash has left.
C7_TerminalStatesAreFinal ==
    /\ \A u \in Users : db[u] \cap gone = {}
    /\ replayed = {}

\* The handlers that end in this step.
Ending == {h \in BagToSet(inflight) : CopiesIn(h, inflight') < CopiesIn(h, inflight)}

\* C8: a rotate call either answers 200 with an access token and a cookie
\* holding a newly signed refresh token whose hash its save has stored in the
\* user's array (where it is, unless another handler has removed it since), or
\* answers 401, clears the cookie and has issued nothing and stored nothing.
C8_NoPartialSuccess ==
    [][RotateAnswered =>
          LET r == last'.res
          IN \/ /\ r.status = 200
                /\ r.access
                /\ r.cookie.act = "set"
                /\ r.cookie.tok \notin issued
                /\ r.cookie.tok \in issued'
                /\ r.cookie.tok.sub = last'.sub
                /\ Hash(r.cookie.tok) \in db'[last'.sub] \cup gone'
             \/ /\ r.status = 401
                /\ ~r.access
                /\ r.cookie.act = "clear"
                /\ db' = db
                /\ issued' = issued
                /\ \A h \in Ending : h.at # "written"]_vars

\* A rotate with an active token failed on storage: the cookie was cleared and
\* nothing was issued.
C8_Witness ==
    /\ last.op = "rotate"
    /\ last.res.status = 401
    /\ last.res.cookie.act = "clear"
    /\ last.sub \in Users
    /\ Hash(last.cookie) \in db[last.sub]
    /\ rotated # {}

\* A logout call was answered in this step.
LogoutAnswered == completed' # completed /\ last'.op = "logout"

\* C11, as claimed: GET /auth/logout answers 200 whatever the refreshToken
\* cookie holds (nothing, an active token, a removed one, one never issued, a
\* string that fails verification), as long as the database answers.
C11_LogoutAlwaysSucceeds ==
    [][(LogoutAnswered /\ \A h \in Ending : h.at # "rejected") =>
          last'.res.status = 200]_vars

\* C12, as claimed: a logout with any presented token raises no error and
\* leaves the user's array equal to the array without that token's hash, so a
\* second logout with the same token, or a logout with a token that was never
\* issued, changes nothing.
C12_RevokeIdempotent ==
    [][/\ \A ck \in CookieChoices \ {NoCookie} :
             Logout(ck, TRUE) =>
                 /\ db' = [u \in Users |-> db[u] \ {Hash(ck)}]
                 /\ (\A u \in Users : Hash(ck) \notin db[u]) => db' = db
       /\ (LogoutAnswered /\ \A h \in Ending : h.at # "rejected") =>
             (last'.res.status = 200 /\ db' = db)]_vars

\* C13, as claimed: as long as no user is deleted, a write of a handler
\* removes from the stored arrays at most the hash of the token its request
\* carried, and the hash of every token handed out is stored when it is handed
\* out: no other session's entry is lost or overwritten.
C13_SessionsIndependent ==
    [][account' = account =>
          /\ \A u \in Users : \A x \in db[u] \ db'[u] :
                \E h \in BagToSet(inflight') \ BagToSet(inflight) :
                    h.at = "written" /\ Hash(h.cookie) = x
          /\ \A t \in issued' \ issued : Exists(t.sub) => Hash(t) \in db'[t.sub]]_vars

\* C19: every GET /auth/token that does not answer 200 answers 401.
C19_RotateFailsUnauthorized ==
    [][RotateAnswered => last'.res.status \in {200, 401}]_vars

\* Rotate calls were refused with 401 for a string that fails verification.
C19_Witness ==
    /\ last.op = "rotate"
    /\ last.cookie = BadCookie
    /\ last.res.status = 401
    /\ completed >= 2

\* C20: a successful rotate of a token with hash h leaves the user's array
\* equal to the array before without h and with the hash of the refresh token
\* set in the cookie, which is newly signed; the arrays of other users are
\* untouched.
C20_RotateReplacesEntry ==
    [][/\ \A h \in BagToSet(inflight') \ BagToSet(inflight) :
             (h.op = "rotate" /\ h.at = "written") =>
                 /\ Hash(h.cookie) \in db[h.sub]
                 /\ h.tok \notin issued
                 /\ db' = [db EXCEPT ![h.sub] = (@ \ {Hash(h.cookie)}) \cup {Hash(h.tok)}]
       /\ (RotateAnswered /\ last'.res.status = 200) =>
             /\ last'.res.cookie.act = "set"
             /\ \E h \in Ending : h.at = "written" /\ last'.res.cookie.tok = h.tok
             /\ Hash(last'.res.cookie.tok) \in db[last'.sub]
             /\ Hash(last'.cookie) \notin db[last'.sub]
             /\ db' = db]_vars

\* The caller whose refresh decided the fate of observer c.
RefresherOf(c) == IF role[c] = "refresher" THEN c ELSE behind[c]

\* C14: when a successful refresh settles queued entries the store already
\* holds the new access token, and every replay, of the refreshing caller and of
\* each queued caller, carries the token the store holds at that time, which is
\* not the token its first request carried.
C14_ReplayWithCurrentToken ==
    [][/\ \A c \in Callers :
             (cpc[c] # "replay" /\ cpc'[c] = "replay") =>
                 /\ reqTok'[c] = accessToken'
                 /\ reqTok'[c] # firstTok[c]
                 /\ sends'[c] = sends[c] + 1
       /\ (\E q \in Callers : cpc[q] = "queued" /\ cpc'[q] = "resolved") =>
             /\ accessToken' = Head(microtasks).tok
             /\ accessToken' # accessToken]_vars

\* After a successful refresh the refreshing caller and two queued callers have
\* replayed with the new token and got their results.
C14_Witness ==
    \E c \in Callers :
        /\ refreshResult[c] = "ok"
        /\ cpc[c] = "done"
        /\ accessToken # FirstToken
        /\ Cardinality({q \in Callers : behind[q] = c /\ cpc[q] = "done"
                                         /\ sends[q] = 2}) >= 2

\* C15: a caller that observed a 401 and whose refresh succeeded settles with
\* the result of its replay, never with the first 401; a caller whose refresh
\* failed settles with the refresh error, without replay, and the page has been
\* sent to /login.
C15_AbsorbsAccess401 ==
    \A c \in Callers :
        (role[c] # "none" /\ cpc[c] = "done") =>
            IF refreshResult[RefresherOf(c)] = "ok"
            THEN sends[c] = 2 /\ outcome[c] \in {"ok", "401", "other"}
            ELSE /\ sends[c] = 1
                 /\ outcome[c] = refreshResult[RefresherOf(c)]
                 /\ outcome[c] \in RefreshErrors
                 /\ location = "/login"

\* One refresh succeeded and its caller got the result of the replay; a later
\* refresh was refused and its caller got the refresh error.
C15_Witness ==
    \E c, d \in Callers :
        /\ role[c] = "refresher" /\ refreshResult[c] = "ok"
        /\ cpc[c] = "done" /\ outcome[c] = "ok"
        /\ role[d] = "refresher" /\ refreshResult[d] = "refresh401"
        /\ cpc[d] = "done" /\ outcome[d] = "refresh401"

\* C17: a first response that is a success or a failure other than 401 settles
\* the caller with that response and changes neither the flag, the queue, the
\* stored token nor the number of refresh calls.
C17_OtherResponsesPassThrough ==
    [][\A c \in Callers :
          (RespOk(c) \/ RespOther(c)) =>
              /\ cpc'[c] = "done"
              /\ outcome'[c] = (IF RespOk(c) THEN "ok" ELSE "other")
              /\ isRefreshing' = isRefreshing
              /\ failedQueue' = failedQueue
              /\ accessToken' = accessToken
              /\ rotateCalls' = rotateCalls
              /\ role'[c] = "none"]_vars

\* A caller was answered with a non-401 failure while a refresh was in flight
\* with another caller queued.
C17_Witness ==
    /\ isRefreshing
    /\ failedQueue # <<>>
    /\ \E c \in Callers : cpc[c] = "done" /\ outcome[c] = "other" /\ role[c] = "none"

\* C18: when the refresh call fails without a response, then once its
\* reactions have run the refreshing caller is rejected with that failure, every
\* caller queued behind it is rejected with it, the page has been sent to
\* /login, and the flag set for that refresh has been cleared.
C18_TransportFailureForcesLogout ==
    \A c \in Callers :
        (refreshResult[c] = "refreshNet" /\ TaskMayRun) =>
            /\ cpc[c] = "done" /\ outcome[c] = "refreshNet" /\ sends[c] = 1
            /\ \A q \in Callers :
                  behind[q] = c =>
                      cpc[q] = "done" /\ outcome[q] = "refreshNet" /\ sends[q] = 1
            /\ location = "/login"
            /\ accessCookie = "expired"
            /\ cyclesDone > epoch[c]
            /\ isRefreshing => CurrentRefresher \notin {0, c}

\* A refresh failed without a response with two callers queued behind it.
C18_Witness ==
    \E c \in Callers :
        /\ refreshResult[c] = "refreshNet"
        /\ ~isRefreshing
        /\ TaskMayRun
        /\ Cardinality({q \in Callers : behind[q] = c}) >= 2

\* C16: a 401 answer to the login or registration request is handed to its
\* caller as the failure; it does not set the flag, does not cause a
\* GET /auth/token call and does not put anything in the queue.
C16_AuthFailureIsTerminal ==
    [][AuthResp("401") =>
          /\ authPc' = "401"
          /\ isRefreshing' = isRefreshing
          /\ rotateCalls' = rotateCalls
          /\ failedQueue' = failedQueue
          /\ accessToken' = accessToken]_vars

\* A login was refused with 401 on a page where no refresh is, or has been, in
\* progress, while a protected call was still waiting for its response.
C16_Witness ==
    /\ authPc = "401"
    /\ ~isRefreshing
    /\ rotateCalls = 0
    /\ failedQueue = <<>>
    /\ \E c \in Callers : cpc[c] = "sent"

\* Number of settlement reactions of caller c's queue entry waiting to run.
EntryJobs(c) ==
    Cardinality({i \in 1..Len(microtasks) :
                    microtasks[i].c = c /\ microtasks[i].k \in {"queuedThen", "queuedReject"}})

\* Number of entries of caller c in the queue.
Entries(c) == Cardinality({i \in 1..Len(failedQueue) : failedQueue[i] = c})

\* C21: a queue entry is created only by a caller that gets a 401 while the
\* flag is set; it is settled only by the reaction that handles the result of
\* the refresh, once, and by nothing else.
C21_EntrySettledOnce ==
    [][\A c \in Callers :
          /\ Entries(c) <= 1 /\ EntryJobs(c) <= 1
          /\ Entries(c) = 1 <=> cpc[c] = "queued"
          /\ EntryJobs(c) = 1 <=> cpc[c] \in {"resolved", "rejected"}
          /\ (cpc[c] # "queued" /\ cpc'[c] = "queued") =>
                 (cpc[c] = "sent" /\ isRefreshing /\ Resp401(c))
          /\ (cpc[c] = "queued" /\ cpc'[c] # "queued") =>
                 /\ microtasks # <<>>
                 /\ Head(microtasks).k \in {"then", "catch"}
                 /\ Head(microtasks).c = behind[c]
                 /\ cpc'[c] = (IF Head(microtasks).k = "then" THEN "resolved" ELSE "rejected")
                 /\ EntryJobs(c)' = 1
                 /\ Entries(c)' = 0]_vars

\* Two callers were queued behind a refresh and their entries were resolved when
\* it succeeded; both replays have settled.
C21_Witness ==
    \E r \in Callers :
        /\ refreshResult[r] = "ok"
        /\ Cardinality({q \in Callers : behind[q] = r /\ cpc[q] = "done"
                                         /\ outcome[q] = "ok"}) >= 2
        /\ failedQueue = <<>>
        /\ cyclesDone >= 1

\* C22: a logout removes from the stored arrays nothing but the hash of the
\* presented token and adds nothing: the user's other entries and the other
\* users' arrays are as before.
C22_LogoutRemovesOnlyPresented ==
    [][/\ \A ck \in CookieChoices : \A ok \in BOOLEAN :
             Logout(ck, ok) =>
                 \A u \in Users :
                     /\ db'[u] \subseteq db[u]
                     /\ db[u] \ db'[u] \subseteq {Hash(ck)}
                     /\ u # ck.sub => db'[u] = db[u]
       /\ (LogoutAnswered /\ Ending # {}) => db' = db]_vars

\* A logout removed the presented token of a user who holds another session,
\* while another user holds a session too.
C22_Witness ==
    /\ last.op = "logout"
    /\ last.res.status = 200
    /\ Hash(last.cookie) \in gone
    /\ last.sub \in Users
    /\ db[last.sub] # {}
    /\ \E u \in Users \ {last.sub} : db[u] # {}

\* C23: a rotate refused for a validly signed token of an existing user (its
\* hash is not in the loaded array: it was used or revoked) changes no stored
\* array, so the user's other sessions stay active.
C23_ReuseInvalidatesNothingElse ==
    [][(/\ RotateAnswered
        /\ last'.res.status = 401
        /\ JwtVerifies(last'.cookie)
        /\ last'.sub \in Users) => db' = db]_vars

\* A token that had been rotated was presented again and refused while the user
\* holds two active sessions.
C23_Witness ==
    /\ last.op = "rotate"
    /\ last.cookie \in rotated
    /\ last.res.status = 401
    /\ Cardinality(db[last.sub]) >= 2

\* C24, as claimed: a request to a protected route whose Authorization header
\* is absent or is not 'Bearer <token>', or whose token is expired or
\* malformed, is answered 401 and the route's handler does not run.
C24_GuardAnswersUnauthorized ==
    \A i \in 1..Len(guardLog) :
        (~StartsWithBearer(guardLog[i].header)
            \/ guardLog[i].header.tok \in {"expired", "malformed"}) =>
                guardLog[i].status = 401 /\ ~guardLog[i].handlerRan

\* C25, as claimed: when the logoutUser thunk completes, whatever the result
\* of GET /auth/logout, the store holds no access token and no user data.
C25_LogoutClearsLocalState ==
    [][\A st \in {"ok", "500", "net"} : \A hook \in HookOutcomes :
          LogoutResp(st, hook) => (accessToken' = NoToken /\ ~userData')]_vars

\* C26: every answer of GET /auth/logout clears the refreshToken cookie, the
\* 200 answers and the error answers alike.
C26_LogoutAlwaysClearsCookie ==
    [][LogoutAnswered => last'.res.cookie.act = "clear"]_vars

\* A logout whose token failed verification was answered with an error and the
\* cookie was cleared.
C26_Witness ==
    /\ last.op = "logout"
    /\ last.cookie = BadCookie
    /\ last.res.status = 500
    /\ last.res.cookie.act = "clear"

\* C27: whenever the flag is set it is cleared again, whether the refresh
\* succeeds or fails.
C27_FlagEventuallyCleared == isRefreshing ~> ~isRefreshing

\* Two refresh cycles have completed, one that succeeded and a later one,
\* started by a later 401, that failed; the flag is clear.
C27_Witness ==
    /\ ~isRefreshing
    /\ cyclesDone = 2
    /\ \E c, d \in Callers :
          /\ refreshResult[c] = "ok" /\ epoch[c] = 0
          /\ refreshResult[d] \in RefreshErrors /\ epoch[d] = 1

\* C28: a non-empty queue implies the flag is set, and so does a caller
\* waiting on its entry.
C28_QueueImpliesFlag ==
    /\ failedQueue # <<>> => isRefreshing
    /\ \A c \in Callers : cpc[c] = "queued" => (isRefreshing /\ InQueue(c))

\* The queue holds every other caller while the flag is set, after an earlier
\* cycle has completed.
C28_Witness ==
    /\ isRefreshing
    /\ Len(failedQueue) = NCallers - 2
    /\ failedQueue # <<>>
    /\ cyclesDone >= 1

\* C29: one call sends its request at most twice and starts at most one
\* refresh; the result of the replay, a 401 included, settles the caller and
\* neither sets the flag, nor causes a refresh call, nor adds to the queue.
C29_NoRefreshLoop ==
    [][\A c \in Callers :
          /\ sends'[c] <= 2
          /\ role'[c] # role[c] => role[c] = "none"
          /\ cpc[c] = "replay" =>
                 /\ cpc'[c] \in {"replay", "done"}
                 /\ cpc'[c] = "done" =>
                        /\ outcome'[c] \in {"ok", "401", "other"}
                        /\ isRefreshing' = isRefreshing
                        /\ rotateCalls' = rotateCalls
                        /\ failedQueue' = failedQueue]_vars

\* The replay of the refreshing caller and the replay of a queued caller were
\* both answered 401 and both callers got that 401; one refresh call was made.
C29_Witness ==
    \E c, q \in Callers :
        /\ role[c] = "refresher" /\ role[q] = "queued"
        /\ cpc[c] = "done" /\ cpc[q] = "done"
        /\ outcome[c] = "401" /\ outcome[q] = "401"
        /\ sends[c] = 2 /\ sends[q] = 2
        /\ rotateCalls = 1

\* The signed refresh tokens among the cookies delivered at positions i < j are
\* different.
NoTokenPresentedTwice ==
    \A i, j \in 1..Len(presented) :
        (i < j /\ presented[i].kind = "jwt") => presented[i] # presented[j]

\* C30, as claimed: the page never delivers the same refresh token to
\* GET /auth/token twice.
C30_NeverPresentsTwice == NoTokenPresentedTwice

\* C30, amended: as long as every answer of GET /auth/token has reached the
\* page, each refresh call carries the cookie set by the login or by the last
\* answer, no signed token is delivered twice, and none is refused as reused.
C30_NeverPresentsTwiceUnlessLost ==
    ~answerLost =>
        /\ NoTokenPresentedTwice
        /\ replayed = {}
        /\ \A i \in 1..Len(presented) :
              presented[i] = NoCookie \/ presented[i] \in issued
        /\ wire.st = "request" => (wire.cookie \notin rotated)

\* Two refreshes of the page succeeded one after the other, the second with
\* the cookie the first had set, and no answer was lost.
C30_Witness ==
    /\ ~answerLost
    /\ Len(presented) >= 2
    /\ presented[1] = LoginCookie
    /\ presented[2] \in issued \ {LoginCookie}
    /\ {presented[1], presented[2]} \subseteq rotated

====
